---------------------------- MODULE Spec2Model ----------------------------
(***************************************************************************)
(* A model of the grid-world environment of                                *)
(*   codes/GridWorld_v1_Throne.py  (class GridWorld_v1)                    *)
(*   codes/GridWorld_v2.py         (class GridWorld_v2)                    *)
(* The constructor and getScore are the same code in both classes; the     *)
(* trajectory sampler getTrajectoryScore exists in GridWorld_v2 only.      *)
(*                                                                         *)
(* Python lists and numpy arrays are 0-based, TLA+ sequences are 1-based:  *)
(* element k of a Python list is element k+1 of the sequence modelling it. *)
(* Python's // and % with a positive divisor are floor division and the    *)
(* non-negative remainder, which is what \div and % are in TLA+.           *)
(***************************************************************************)
EXTENDS Integers, Sequences, FiniteSets, TLC

VARIABLES
    pc,                 \* "new" | "ready" | "error" | "loop" | "done"
    mode,               \* which branch of __init__ ran: "none" | "desc" | "random"
    rows, columns,      \* self.rows, self.columns
    score,              \* self.score (reward of a target cell)
    forbiddenAreaScore, \* self.forbiddenAreaScore
    forbiddenAreaNums,  \* self.forbiddenAreaNums (random mode only)
    targetNums,         \* self.targetNums (random mode only)
    g,                  \* self.g, the flat reward list (random mode only)
    scoreMap,           \* self.scoreMap
    stateMap,           \* self.stateMap
    call,               \* the arguments of the last direct call getScore(nowState, action)
    ret,                \* what that call did: its prints and its result or exception
    policy,             \* getTrajectoryScore: the policy argument
    steps,              \* getTrajectoryScore: the local steps (reassigned at line 178)
    stop,               \* getTrajectoryScore: stop_when_reach_target
    i,                  \* getTrajectoryScore: the loop index of `for i in range(steps + 1)`
    nowState, nowAction,   \* getTrajectoryScore: locals
    nextState, nextAction, \* getTrajectoryScore: locals
    res,                \* getTrajectoryScore: the last two records of the list res
    resLen,             \* getTrajectoryScore: len(res)
    goalBefore,         \* history: a record before the last one has its state on a target cell
    start               \* history: the caller's (nowState, action), kept until res has two records

gridVars == <<mode, rows, columns, score, forbiddenAreaScore, forbiddenAreaNums,
              targetNums, g, scoreMap, stateMap>>
callVars == <<call, ret>>
trajVars == <<policy, steps, stop, i, nowState, nowAction, nextState, nextAction,
              res, resLen, goalBefore, start>>
vars == <<pc, gridVars, callVars, trajVars>>

(***************************************************************************)
(* Bounds of the model.                                                    *)
(***************************************************************************)
\* the largest number of cells rows * columns of a constructed grid
MaxCells == 4
\* the largest steps argument of a trajectory without early stop
MaxSteps == 2

(***************************************************************************)
(* Values.                                                                 *)
(***************************************************************************)
\* Python's None, and an attribute that was never assigned
None == <<>>

\* the values tried for the constructor's score argument (default 1)
Scores == {0, 1}
\* the values tried for the constructor's forbiddenAreaScore argument (default -1)
ForbiddenScores == {-10, -1, 1}

\* the characters of a desc layout: ordinary cell, forbidden cell, target cell
Chars == {"", "#", "T"}

\* the (rows, columns) pairs within the bound
Shapes == {sh \in (1..MaxCells) \X (1..MaxCells) : sh[1] * sh[2] <= MaxCells}

\* all desc layouts within the bound
Layouts == UNION {[1..sh[1] -> [1..sh[2] -> Chars]] : sh \in Shapes}

\* element (x, y) of a 2-D Python list or numpy array, 0-based
At(m, x, y) == m[x + 1][y + 1]

(***************************************************************************)
(* __init__                                                                *)
(***************************************************************************)
\* a faulty variant of StateId: the row index scaled by the number of rows
StateIdByRows(x, y, nrows, ncols) == x * nrows + y

\* the state number of cell (x, y): i * self.columns + j
StateId(x, y, nrows, ncols) == x * ncols + y

\* [[i*self.columns+j for j in range(self.columns)] for i in range(self.rows)]
MakeStateMap(nrows, ncols) ==
    [x \in 1..nrows |-> [y \in 1..ncols |-> StateId(x - 1, y - 1, nrows, ncols)]]

\* the reward a desc character stands for
CharScore(char, sc, fsc) ==
    IF char = "#" THEN fsc ELSE IF char = "T" THEN sc ELSE 0

\* the nested loop over desc that builds the list l, then np.array(l)
DescScoreMap(desc, sc, fsc) ==
    [x \in 1..Len(desc) |-> [y \in 1..Len(desc[1]) |-> CharScore(desc[x][y], sc, fsc)]]

\* __init__ with desc given
BuildDesc(desc, sc, fsc) ==
    /\ pc = "new"
    /\ score' = sc
    /\ forbiddenAreaScore' = fsc
    /\ rows' = Len(desc)
    /\ columns' = Len(desc[1])
    /\ scoreMap' = DescScoreMap(desc, sc, fsc)
    /\ stateMap' = MakeStateMap(Len(desc), Len(desc[1]))
    /\ mode' = "desc"
    /\ pc' = "ready"
    /\ UNCHANGED <<forbiddenAreaNums, targetNums, g, callVars, trajVars>>

\* Python's list[k]: defined for -len <= k < len, IndexError otherwise
IndexOk(list, k) == -Len(list) <= k /\ k < Len(list)

\* Python's list[k] where it is defined: a negative k counts from the end
Index(list, k) == IF k >= 0 THEN list[k + 1] ELSE list[Len(list) + k + 1]

\* a faulty variant of GoalIndex: the index wrapped around the end of the list
GoalIndexWrapped(l, nF, k) == (nF + k) % Len(l)

\* a faulty variant of GoalIndex: the offset forbiddenAreaNums forgotten
GoalIndexNoOffset(l, nF, k) == k

\* the index into l of the k-th target cell: forbiddenAreaNums + i
GoalIndex(l, nF, k) == nF + k

\* for i in range(forbiddenAreaNums): self.g[l[i]] = forbiddenAreaScore
\* from iteration k on; an IndexError leaves the loop with err set
RECURSIVE PlaceForbidden(_, _, _, _, _)
PlaceForbidden(gg, l, k, nF, fsc) ==
    IF k >= nF THEN [err |-> FALSE, g |-> gg]
    ELSE IF ~IndexOk(l, k) THEN [err |-> TRUE, g |-> gg]
    ELSE PlaceForbidden([gg EXCEPT ![Index(l, k) + 1] = fsc], l, k + 1, nF, fsc)

\* for i in range(targetNums): self.g[l[forbiddenAreaNums+i]] = score
RECURSIVE PlaceTargets(_, _, _, _, _, _)
PlaceTargets(gg, l, k, nF, nT, sc) ==
    IF k >= nT THEN [err |-> FALSE, g |-> gg]
    ELSE IF ~IndexOk(l, GoalIndex(l, nF, k)) THEN [err |-> TRUE, g |-> gg]
    ELSE PlaceTargets([gg EXCEPT ![Index(l, GoalIndex(l, nF, k)) + 1] = sc],
                      l, k + 1, nF, nT, sc)

\* np.array(self.g).reshape(rows, columns)
Reshape(gg, nrows, ncols) ==
    [x \in 1..nrows |-> [y \in 1..ncols |-> gg[(x - 1) * ncols + (y - 1) + 1]]]

\* the lists random.shuffle can leave in l: the permutations of 0 .. n-1
Shuffles(n) == {[k \in 1..n |-> p[k] - 1] : p \in Permutations(1..n)}

\* __init__ without desc: l is the shuffled list of cell indices
BuildRandom(nrows, ncols, nF, nT, l, sc, fsc) ==
    /\ pc = "new"
    /\ score' = sc
    /\ forbiddenAreaScore' = fsc
    /\ rows' = nrows
    /\ columns' = ncols
    /\ forbiddenAreaNums' = nF
    /\ targetNums' = nT
    /\ mode' = "random"
    /\ LET g0 == [k \in 1..(nrows * ncols) |-> 0]
           f  == PlaceForbidden(g0, l, 0, nF, fsc)
           t  == IF f.err THEN f ELSE PlaceTargets(f.g, l, 0, nF, nT, sc)
       IN  /\ g' = t.g
           /\ IF t.err
              THEN \* IndexError leaves __init__: no scoreMap, no stateMap, no object
                   /\ pc' = "error"
                   /\ UNCHANGED <<scoreMap, stateMap>>
              ELSE /\ pc' = "ready"
                   /\ scoreMap' = Reshape(t.g, nrows, ncols)
                   /\ stateMap' = MakeStateMap(nrows, ncols)
    /\ UNCHANGED <<callVars, trajVars>>

(***************************************************************************)
(* getScore                                                                *)
(***************************************************************************)
\* actionList = [(-1,0), (0,1), (1,0), (0,-1), (0,0)]
actionList == << <<-1, 0>>, <<0, 1>>, <<1, 0>>, <<0, -1>>, <<0, 0>> >>

\* what a call leaves behind: the lines it printed, and either an exception
\* (err) or the returned pair (reward, next)
Raised(log) == [err |-> TRUE, log |-> log, reward |-> 0, next |-> 0]
Returned(log, r, s) == [err |-> FALSE, log |-> log, reward |-> r, next |-> s]

\* the two checks that only print
ScoreLog(nowx, nowy, action) ==
    (IF nowx < 0 \/ nowy < 0 \/ nowx >= rows \/ nowy >= columns
     THEN <<"coordinate error">> ELSE <<>>)
    \o (IF action < 0 \/ action >= 5 THEN <<"action error">> ELSE <<>>)

\* a faulty variant of getScore: a wall bump is charged forbiddenAreaScore
getScoreBumpForbidden(s, action) ==
    LET nowx == s \div columns
        nowy == s % columns
        log  == ScoreLog(nowx, nowy, action)
    IN  IF ~IndexOk(actionList, action) THEN Raised(log)
        ELSE LET tmpx == nowx + Index(actionList, action)[1]
                 tmpy == nowy + Index(actionList, action)[2]
             IN  IF tmpx < 0 \/ tmpy < 0 \/ tmpx >= rows \/ tmpy >= columns
                 THEN Returned(log, forbiddenAreaScore, s)
                 ELSE Returned(log, At(scoreMap, tmpx, tmpy), At(stateMap, tmpx, tmpy))

\* a faulty variant of getScore: the reward is read at the cell left, not the cell entered
getScoreRewardOfNow(s, action) ==
    LET nowx == s \div columns
        nowy == s % columns
        log  == ScoreLog(nowx, nowy, action)
    IN  IF ~IndexOk(actionList, action) THEN Raised(log)
        ELSE LET tmpx == nowx + Index(actionList, action)[1]
                 tmpy == nowy + Index(actionList, action)[2]
             IN  IF tmpx < 0 \/ tmpy < 0 \/ tmpx >= rows \/ tmpy >= columns
                 THEN Returned(log, -1, s)
                 ELSE IF nowx \notin 0..(rows - 1) \/ nowy \notin 0..(columns - 1)
                      THEN Raised(log)
                      ELSE Returned(log, At(scoreMap, nowx, nowy), At(stateMap, tmpx, tmpy))

\* getScore(nowState, action)
getScore(s, action) ==
    LET nowx == s \div columns
        nowy == s % columns
        log  == ScoreLog(nowx, nowy, action)
    IN  IF ~IndexOk(actionList, action) THEN Raised(log)
        ELSE LET tmpx == nowx + Index(actionList, action)[1]
                 tmpy == nowy + Index(actionList, action)[2]
             IN  IF tmpx < 0 \/ tmpy < 0 \/ tmpx >= rows \/ tmpy >= columns
                 THEN Returned(log, -1, s)
                 ELSE Returned(log, At(scoreMap, tmpx, tmpy), At(stateMap, tmpx, tmpy))

\* a caller's call getScore(s, action) on a constructed grid; getScore changes
\* nothing of the object, so one call per run shows all a call can do
Call(s, action) ==
    /\ pc = "ready"
    /\ call = None
    /\ call' = [state |-> s, action |-> action]
    /\ ret' = getScore(s, action)
    /\ UNCHANGED <<pc, gridVars, trajVars>>

(***************************************************************************)
(* The program: a grid is constructed, then getScore is called on it.      *)
(***************************************************************************)
\* the class attributes (stateMap = None, scoreMap = None, score = 0,
\* forbiddenAreaScore = 0), before __init__ runs
Init ==
    /\ pc = "new"
    /\ mode = "none"
    /\ rows = 0
    /\ columns = 0
    /\ score = 0
    /\ forbiddenAreaScore = 0
    /\ forbiddenAreaNums = 0
    /\ targetNums = 0
    /\ g = None
    /\ scoreMap = None
    /\ stateMap = None
    /\ call = None
    /\ ret = None
    /\ policy = None
    /\ steps = 0
    /\ stop = FALSE
    /\ i = 0
    /\ nowState = 0
    /\ nowAction = 0
    /\ nextState = 0
    /\ nextAction = 0
    /\ res = <<>>
    /\ resLen = 0
    /\ goalBefore = FALSE
    /\ start = None

\* the states and actions tried in a direct call, valid and invalid
CallStates == -1 .. (rows * columns)
CallActions == -1 .. 5

\* __init__ with desc, over the layouts and reward values of the model
NewDesc ==
    /\ pc = "new"
    /\ \E desc \in Layouts, sc \in Scores, fsc \in ForbiddenScores :
           BuildDesc(desc, sc, fsc)

\* __init__ without desc, over the shapes, counts (over-full ones included),
\* shuffles and reward values of the model
NewRandom ==
    /\ pc = "new"
    /\ \E sh \in Shapes, nF \in 0..(MaxCells + 1), nT \in 0..(MaxCells + 1),
          sc \in Scores, fsc \in ForbiddenScores :
           \E l \in Shuffles(sh[1] * sh[2]) :
               BuildRandom(sh[1], sh[2], nF, nT, l, sc, fsc)

\* one direct call of getScore
DirectCall ==
    /\ pc = "ready"
    /\ call = None
    /\ \E s \in CallStates, action \in CallActions : Call(s, action)

Next == NewDesc \/ NewRandom \/ DirectCall

Spec == Init /\ [][Next]_vars


(***************************************************************************)
(* getTrajectoryScore (GridWorld_v2 only)                                  *)
(*                                                                         *)
(* The list res only grows, and no record of it is read again by the code. *)
(* The model keeps its length resLen and its last two records; what the    *)
(* claims say of earlier records is carried by the history variables       *)
(* goalBefore and start.                                                   *)
(***************************************************************************)
\* the step budget under stop_when_reach_target: steps = 20000
StopSteps == 20000

\* a faulty variant of EffectiveSteps: the caller's steps kept under stop_when_reach_target
EffectiveStepsOfCaller(st, stp) == st

\* if stop_when_reach_target == True: steps = 20000
EffectiveSteps(st, stp) == IF stp = TRUE THEN StopSteps ELSE st

\* a faulty variant of LoopCount: range(steps)
LoopCountShort(st) == st

\* the number of iterations of `for i in range(steps + 1)`
LoopCount(st) == st + 1

\* whether state s lies on a target cell: self.scoreMap[nowx][nowy] == self.score
IsTarget(s) == At(scoreMap, s \div columns, s % columns) = score

\* a faulty variant of ReachedTarget: the state just entered is tested
ReachedTargetNext(now, next) == IsTarget(next)

\* the early-stop test after a record is appended: it reads nowState
ReachedTarget(now, next) == IsTarget(now)

\* a faulty variant of PolicyRow: the row of the state left
PolicyRowOfNow(pol, now, next) == pol[now + 1]

\* the row the next action is drawn from: policy[nextState]
PolicyRow(pol, now, next) == pol[next + 1]

\* np.random.choice(range(5), size=1, replace=False, p=row)[0]: any action index
\* of positive probability (probabilities are written in hundredths)
Choice(row) == {a \in 0..4 : row[a + 1] > 0}

\* res.append(rec), keeping the last two records
Keep(list, rec) == IF list = <<>> THEN <<rec>> ELSE <<list[Len(list)], rec>>

\* the call getTrajectoryScore(s, a, pol, st, stp), up to the loop
Start(s, a, pol, st, stp) ==
    /\ pc = "ready"
    /\ policy' = pol
    /\ stop' = stp
    /\ nowState' = s
    /\ res' = <<>>
    /\ resLen' = 0
    /\ nextState' = s
    /\ nextAction' = a
    /\ steps' = EffectiveSteps(st, stp)
    /\ i' = 0
    /\ goalBefore' = FALSE
    /\ start' = [state |-> s, action |-> a]
    /\ pc' = "loop"
    /\ UNCHANGED <<nowAction, gridVars, callVars>>

\* one iteration of the loop body; the early return leaves the loop
LoopStep ==
    /\ pc = "loop"
    /\ i < LoopCount(steps)
    /\ LET r == getScore(nextState, nextAction)
       IN  IF r.err
           THEN /\ pc' = "error"
                /\ nowState' = nextState
                /\ nowAction' = nextAction
                /\ UNCHANGED <<nextState, nextAction, res, resLen, goalBefore, start, i>>
           ELSE \E a \in Choice(PolicyRow(policy, nextState, r.next)) :
                /\ nowState' = nextState
                /\ nowAction' = nextAction
                /\ nextState' = r.next
                /\ nextAction' = a
                /\ res' = Keep(res, [state |-> nextState, action |-> nextAction,
                                     score |-> r.reward, nextState |-> r.next,
                                     nextAction |-> a])
                /\ resLen' = resLen + 1
                /\ goalBefore' = (goalBefore \/ (res # <<>> /\ IsTarget(res[Len(res)].state)))
                /\ start' = IF resLen = 0 THEN start ELSE None
                /\ IF stop /\ ReachedTarget(nextState, r.next)
                   THEN pc' = "done" /\ i' = i
                   ELSE pc' = "loop" /\ i' = i + 1
    /\ UNCHANGED <<policy, steps, stop, gridVars, callVars>>

\* the loop is exhausted: return res
LoopExit ==
    /\ pc = "loop"
    /\ i >= LoopCount(steps)
    /\ pc' = "done"
    /\ UNCHANGED <<gridVars, callVars, policy, steps, stop, i, nowState, nowAction,
                   nextState, nextAction, res, resLen, goalBefore, start>>

(***************************************************************************)
(* The grids and policies the sampler is run on.                           *)
(***************************************************************************)
\* policy rows, in hundredths: action a for sure; a or b with equal probability
Det(a) == [k \in 1..5 |-> IF k = a + 1 THEN 100 ELSE 0]
Half(a, b) == [k \in 1..5 |-> IF k = a + 1 \/ k = b + 1 THEN 50 ELSE 0]

\* the layout of the constructor's docstring, [['', 'T'], ['#', '']]: the target
\* is state 1, the forbidden cell state 2
ExampleDesc == << <<"", "T">>, <<"#", "">> >>
\* on it: right or down in 0, stay on the target, up or right in 2, up in 3
ExamplePolicy == << Half(1, 2), Det(4), Half(0, 1), Det(0) >>
\* on it: stay everywhere (a policy that reaches the target from nowhere)
StayPolicy == << Det(4), Det(4), Det(4), Det(4) >>

\* a 1 x 3 layout without a target
CorridorDesc == << <<"", "#", "">> >>
\* on it: right in 0, left or right in 1, left in 2
CorridorPolicy == << Det(1), Half(3, 1), Det(3) >>

TrajInputs ==
    { [desc |-> ExampleDesc, policy |-> ExamplePolicy],
      [desc |-> ExampleDesc, policy |-> StayPolicy],
      [desc |-> CorridorDesc, policy |-> CorridorPolicy] }

\* __init__ with one of these layouts and the default rewards score=1, forbiddenAreaScore=-1
NewTraj ==
    /\ pc = "new"
    /\ \E inp \in TrajInputs : BuildDesc(inp.desc, 1, -1)

\* the policies of the model that fit the constructed grid
PoliciesHere ==
    {inp.policy : inp \in {x \in TrajInputs : DescScoreMap(x.desc, score, forbiddenAreaScore) = scoreMap}}

\* a call of getTrajectoryScore with stop_when_reach_target=False
StartFixed ==
    /\ pc = "ready"
    /\ \E s \in 0..(rows * columns - 1), a \in 0..4, pol \in PoliciesHere,
          st \in 0..MaxSteps :
           Start(s, a, pol, st, FALSE)

\* a call of getTrajectoryScore with stop_when_reach_target=True
StartStop ==
    /\ pc = "ready"
    /\ \E s \in 0..(rows * columns - 1), a \in 0..4, pol \in PoliciesHere,
          st \in 0..MaxSteps :
           Start(s, a, pol, st, TRUE)

\* runs without early stop; the call runs to completion once started
NextFixed == NewTraj \/ StartFixed \/ LoopStep \/ LoopExit
SpecFixed == Init /\ [][NextFixed]_vars /\ WF_vars(NextFixed)

\* runs with and without early stop
NextTraj == NewTraj \/ StartFixed \/ StartStop \/ LoopStep \/ LoopExit
SpecTraj == Init /\ [][NextTraj]_vars

(***************************************************************************)
(* Claims about getScore (checked under Spec).                             *)
(***************************************************************************)
\* a direct call was made, with a state and an action inside their ranges
ValidCall ==
    /\ pc = "ready"
    /\ call # None
    /\ call.state \in 0..(rows * columns - 1)
    /\ call.action \in 0..4

\* a direct call was made, with a state or an action outside its range
InvalidCall ==
    /\ pc = "ready"
    /\ call # None
    /\ (call.state \notin 0..(rows * columns - 1) \/ call.action \notin 0..4)

\* the row and column of the called state, and of the cell the called action aims at
CallRow == call.state \div columns
CallCol == call.state % columns
CandRow == CallRow + (CASE call.action = 0 -> -1 [] call.action = 2 -> 1 [] OTHER -> 0)
CandCol == CallCol + (CASE call.action = 1 -> 1 [] call.action = 3 -> -1 [] OTHER -> 0)
CandInside == CandRow \in 0..(rows - 1) /\ CandCol \in 0..(columns - 1)

\* C1: a call with a valid state and an action whose candidate cell lies outside
\* the grid returns reward -1 and the state it was called with, whatever the
\* rewards of the grid are.
C1_Boundary ==
    (ValidCall /\ ~CandInside) =>
        /\ ~ret.err
        /\ ret.reward = -1
        /\ ret.next = call.state

\* C1 happens: a wall bump from a forbidden cell of a grid whose forbidden reward is not -1
C1_Witness ==
    /\ ValidCall /\ ~CandInside
    /\ forbiddenAreaScore = -10
    /\ At(scoreMap, CallRow, CallCol) = forbiddenAreaScore
    /\ ret.reward = -1 /\ ret.next = call.state

\* C2: a call with a valid state and an action whose candidate cell (r', c') is
\* inside the grid returns nextState = r'*C + c' in [0, R*C) and the reward of
\* that cell, which is the cell the returned nextState decodes to.
C2_RewardFidelity ==
    (ValidCall /\ CandInside) =>
        /\ ~ret.err
        /\ ret.next = CandRow * columns + CandCol
        /\ ret.next \in 0..(rows * columns - 1)
        /\ ret.reward = At(scoreMap, CandRow, CandCol)
        /\ ret.reward = At(scoreMap, ret.next \div columns, ret.next % columns)

\* C2 happens: a move from an ordinary cell into a target cell
C2_Witness ==
    /\ ValidCall /\ CandInside
    /\ call.action # 4
    /\ score = 1
    /\ At(scoreMap, CallRow, CallCol) = 0
    /\ ret.reward = score
    /\ ret.next # call.state

\* C3: a call with a state outside [0, R*C) or an action outside {0..4} ends in
\* an error and returns no (reward, nextState) pair.
C3_InvalidRejected == InvalidCall => ret.err

(***************************************************************************)
(* Claims about __init__ (checked under Spec).                             *)
(***************************************************************************)
\* the cells (as flat indices) of the constructed grid holding reward v
CellsWith(v) ==
    {k \in 0..(rows * columns - 1) : At(scoreMap, k \div columns, k % columns) = v}

\* what C6 says of a grid constructed at random
DisjointAndCounted ==
    /\ CellsWith(forbiddenAreaScore) \cap CellsWith(score) = {}
    /\ Cardinality(CellsWith(forbiddenAreaScore)) = forbiddenAreaNums
    /\ Cardinality(CellsWith(score)) = targetNums
    /\ \A k \in (0..(rows * columns - 1))
                 \ (CellsWith(forbiddenAreaScore) \cup CellsWith(score)) :
           At(scoreMap, k \div columns, k % columns) = 0

\* the random constructor was given counts that fit the grid
RandomFits ==
    /\ mode = "random"
    /\ forbiddenAreaNums + targetNums <= rows * columns

\* C6 as stated: after a random construction with counts that fit, the forbidden
\* cells and the target cells are disjoint, are forbiddenAreaNums and targetNums
\* many, and every other cell has reward 0.
C6_Original == RandomFits => (pc = "ready" /\ DisjointAndCounted)

\* C6 as amended: the same, for score, forbiddenAreaScore and 0 pairwise distinct.
C6_DisjointCounts ==
    (RandomFits /\ score # forbiddenAreaScore /\ score # 0 /\ forbiddenAreaScore # 0)
        => (pc = "ready" /\ DisjointAndCounted)

\* C6 happens: a random grid with forbidden, target and ordinary cells
C6_Witness ==
    /\ RandomFits /\ pc = "ready"
    /\ score # forbiddenAreaScore /\ score # 0 /\ forbiddenAreaScore # 0
    /\ forbiddenAreaNums = 2 /\ targetNums = 1
    /\ forbiddenAreaNums + targetNums < rows * columns
    /\ DisjointAndCounted

\* C7: a random construction with forbiddenAreaNums + targetNums > rows * columns
\* ends in an error and yields no grid.
C7_OverfullFails ==
    (mode = "random" /\ forbiddenAreaNums + targetNums > rows * columns) =>
        /\ pc = "error"
        /\ scoreMap = None
        /\ stateMap = None

\* C7 happens: the forbidden cells fit, the targets do not, and construction failed
C7_Witness ==
    /\ mode = "random"
    /\ forbiddenAreaNums < rows * columns
    /\ forbiddenAreaNums + targetNums > rows * columns
    /\ pc = "error"

\* C8: stateMap[row][col] = row*C + col, which decodes (// C, % C) back to
\* (row, col); stateMap[s // C][s % C] = s for every s in [0, R*C); and stateMap
\* is a bijection from the cells onto [0, R*C).
C8_Bijection ==
    pc = "ready" =>
        /\ \A r \in 0..(rows - 1), c \in 0..(columns - 1) :
               /\ At(stateMap, r, c) = r * columns + c
               /\ At(stateMap, r, c) \div columns = r
               /\ At(stateMap, r, c) % columns = c
        /\ \A s \in 0..(rows * columns - 1) :
               At(stateMap, s \div columns, s % columns) = s
        /\ {At(stateMap, r, c) : r \in 0..(rows - 1), c \in 0..(columns - 1)}
               = 0..(rows * columns - 1)
        /\ \A r1, r2 \in 0..(rows - 1), c1, c2 \in 0..(columns - 1) :
               At(stateMap, r1, c1) = At(stateMap, r2, c2) => (r1 = r2 /\ c1 = c2)

\* C8 happens: a grid of several rows and columns, built at random
C8_Witness ==
    /\ pc = "ready"
    /\ mode = "random"
    /\ rows > 1 /\ columns > 1
    /\ At(stateMap, rows - 1, columns - 1) = rows * columns - 1

(***************************************************************************)
(* Claims about getTrajectoryScore.                                        *)
(***************************************************************************)
\* a call of getTrajectoryScore is running or has returned
Sampling == pc \in {"loop", "done"}

\* the record appended last
LastRec == res[Len(res)]

\* C4 (under SpecFixed): a call with steps = k and stop_when_reach_target=False
\* returns exactly k+1 records, whatever is sampled and whether or not target
\* cells are visited, and every such call returns.
C4_Length ==
    /\ []((pc = "done" /\ ~stop) => resLen = steps + 1)
    /\ ((pc = "loop" /\ ~stop) ~> pc = "done")

\* C4 happens: a run of 2 steps returned 3 records after standing on a target cell
C4_Witness ==
    /\ pc = "done" /\ ~stop
    /\ steps = 2 /\ resLen = 3
    /\ goalBefore

\* C5 (under SpecTraj): a run with stop_when_reach_target=True that returns before
\* the budget is exhausted ends with a record whose state is a target cell, and no
\* earlier record has its state on a target cell; a run started on a target cell
\* returns exactly one record.
C5_EarlyStop ==
    /\ (pc = "done" /\ stop /\ resLen < StopSteps + 1) =>
           /\ resLen >= 1
           /\ IsTarget(LastRec.state)
           /\ ~goalBefore
    /\ (Sampling /\ stop /\ resLen = 1 /\ IsTarget(start.state)) => pc = "done"
    /\ (pc = "done" /\ stop /\ resLen >= 2) => ~goalBefore

\* C5 happens: an early return with three records, the target entered by the second
C5_Witness ==
    /\ pc = "done" /\ stop
    /\ resLen = 3
    /\ IsTarget(LastRec.state)
    /\ ~IsTarget(res[1].state)
    /\ ~goalBefore

\* C9 (under SpecTraj): with stop_when_reach_target=True the budget is 20000
\* whatever steps the caller gave: at most 20001 records are returned, and exactly
\* 20001 when no record's state lies on a target cell.
C9_Budget ==
    (Sampling /\ stop) =>
        /\ steps = StopSteps
        /\ i <= StopSteps + 1
        /\ resLen <= StopSteps + 1
        /\ (pc = "done" /\ resLen >= 1 /\ ~goalBefore /\ ~IsTarget(LastRec.state))
               => resLen = StopSteps + 1

\* C9 happens: on a grid with a target cell, a run that never stood on it has
\* returned 20001 records
C9_Witness ==
    /\ pc = "done" /\ stop
    /\ \E s \in 0..(rows * columns - 1) : IsTarget(s)
    /\ ~goalBefore /\ ~IsTarget(LastRec.state)
    /\ resLen = StopSteps + 1

\* C10 (under SpecTraj): the first record starts at the caller's (state, action);
\* each later record starts at its predecessor's (nextState, nextAction); each
\* record's (reward, nextState) is getScore(state, action); each nextAction is an
\* action of positive probability in policy[nextState]; all states lie in [0, R*C).
C10_Chaining ==
    (Sampling /\ resLen >= 1) =>
        /\ resLen = 1 =>
               /\ start # None
               /\ LastRec.state = start.state
               /\ LastRec.action = start.action
        /\ resLen >= 2 =>
               /\ Len(res) = 2
               /\ res[2].state = res[1].nextState
               /\ res[2].action = res[1].nextAction
        /\ LastRec.state \in 0..(rows * columns - 1)
        /\ LastRec.nextState \in 0..(rows * columns - 1)
        /\ ~getScore(LastRec.state, LastRec.action).err
        /\ LastRec.score = getScore(LastRec.state, LastRec.action).reward
        /\ LastRec.nextState = getScore(LastRec.state, LastRec.action).next
        /\ LastRec.nextAction \in 0..4
        /\ policy[LastRec.nextState + 1][LastRec.nextAction + 1] > 0

\* C10 happens: a record moved to another state, and its nextAction has probability
\* 0 in the row of the state it left
C10_Witness ==
    /\ Sampling /\ resLen >= 2
    /\ LastRec.nextState # LastRec.state
    /\ policy[LastRec.state + 1][LastRec.nextAction + 1] = 0
    /\ policy[LastRec.nextState + 1][LastRec.nextAction + 1] > 0

=============================================================================
